---- MODULE Spec2Model ----
(***************************************************************************)
(* Model of app.py, the "Rural world analyzer" Streamlit application.      *)
(*                                                                         *)
(* Three specifications share the variables below:                         *)
(*   Spec        the application: widget changes and the "Show Amenities"  *)
(*               button, each one full run of main();                      *)
(*   SpecZoom    compute_zoom_level applied to a radius drawn from Radii;  *)
(*   SpecHelpers add_markers_to_map, add_heatmap_to_map and                *)
(*               create_plotly_chart applied to a table drawn from Tables. *)
(*                                                                         *)
(* Optional values (no map, no chart, no result) are sequences of length   *)
(* 0 or 1, so that they compare with the values they stand beside.         *)
(***************************************************************************)
EXTENDS Integers, Sequences, FiniteSets, TLC

VARIABLES
    cache,          \* st.cache_data store of get_amenities: key -> outcome
    test_area,      \* sidebar selectbox "Select a Test Area"
    amenity_type,   \* sidebar selectbox "Select Amenity Type"
    show_markers,   \* sidebar checkbox "Show Markers"
    show_heatmap,   \* sidebar checkbox "Show Heatmap"
    clicked,        \* value of st.sidebar.button("Show Amenities") in the last run
    queries,        \* outbound feature queries issued during the last run
    amenities,      \* the table main (or a helper) works on
    messages,       \* st.error / st.warning / st.write texts shown in the last run
    m,              \* the folium map of the last run: <<>> or <<map>>
    chart,          \* the plotly figure of the last run: <<>> or <<figure>>
    called,         \* helpers applied in the last run, in call order
    radius,         \* argument of compute_zoom_level
    zoom            \* its outcome: <<>> or <<[ret, log_calls]>>

vars == <<cache, test_area, amenity_type, show_markers, show_heatmap, clicked,
          queries, amenities, messages, m, chart, called, radius, zoom>>

appVars == <<cache, test_area, amenity_type, show_markers, show_heatmap, clicked,
             queries, amenities, messages, m, chart, called>>

(***************************************************************************)
(* Bounds of the model                                                     *)
(***************************************************************************)
MaxRadius == 33000
NegRadius == 600
MaxRows == 2
MaxFetched == 1

(***************************************************************************)
(* Constants of the program                                                *)
(***************************************************************************)
RADIUS_DEFAULT == 1000
ZoomThreshold == 500
ZoomBase == 15
ZoomMin == 10
ZoomMax == 18
LogBase == 2

Max(a, b) == IF a >= b THEN a ELSE b
Min(a, b) == IF a <= b THEN a ELSE b

(***************************************************************************)
(* compute_zoom_level                                                      *)
(***************************************************************************)
\* Largest k >= 0 with den * base^k <= num, for num >= den > 0.
RECURSIVE FloorLog(_, _, _)
FloorLog(num, den, base) ==
    IF num < den * base THEN 0 ELSE 1 + FloorLog(num, den * base, base)

\* int(math.log(num / den, base)) for num, den > 0: the logarithm of the
\* quotient, truncated toward zero.  (On 500 <= num <= 2*10^6, den = 500,
\* base = 2 the floating-point value truncates to exactly this integer.)
int_math_log(num, den, base) ==
    IF num >= den THEN FloorLog(num, den, base) ELSE 0 - FloorLog(den, num, base)

ZoomNoFloor(r) ==
    IF r < ZoomThreshold
    THEN [ret |-> ZoomBase, log_calls |-> <<>>]
    ELSE LET z == ZoomBase - int_math_log(r, ZoomThreshold, LogBase)
         IN  [ret |-> Min(z, ZoomMax), log_calls |-> << <<r, ZoomThreshold, LogBase>> >>]

ZoomLowThreshold(r) ==
    IF r < 50
    THEN [ret |-> ZoomBase, log_calls |-> <<>>]
    ELSE LET z == ZoomBase - int_math_log(r, ZoomThreshold, LogBase)
         IN  [ret |-> Max(ZoomMin, Min(z, ZoomMax)),
              log_calls |-> << <<r, ZoomThreshold, LogBase>> >>]

ZoomPlusLog(r) ==
    IF r < ZoomThreshold
    THEN [ret |-> ZoomBase, log_calls |-> <<>>]
    ELSE LET z == ZoomBase + int_math_log(r, ZoomThreshold, LogBase)
         IN  [ret |-> Max(ZoomMin, Min(z, ZoomMax)),
              log_calls |-> << <<r, ZoomThreshold, LogBase>> >>]

ZoomLog10(r) ==
    IF r < ZoomThreshold
    THEN [ret |-> ZoomBase, log_calls |-> <<>>]
    ELSE LET z == ZoomBase - int_math_log(r, ZoomThreshold, 10)
         IN  [ret |-> Max(ZoomMin, Min(z, ZoomMax)),
              log_calls |-> << <<r, ZoomThreshold, 10>> >>]

\* The value returned (ret) and the calls of math.log made on the way.
compute_zoom_level(r) ==
    IF r < ZoomThreshold
    THEN [ret |-> ZoomBase, log_calls |-> <<>>]
    ELSE LET z == ZoomBase - int_math_log(r, ZoomThreshold, LogBase)
         IN  [ret |-> Max(ZoomMin, Min(z, ZoomMax)),
              log_calls |-> << <<r, ZoomThreshold, LogBase>> >>]

Radii == (0 - NegRadius) .. MaxRadius

\* Radii at and just below the multiples of the threshold.
SampleRadii == {r \in Radii : r % ZoomThreshold \in {0, ZoomThreshold - 1}}

(***************************************************************************)
(* Feature tables                                                          *)
(*                                                                         *)
(* A table is [columns, rows]; a row is a record whose fields are the      *)
(* table's columns.  A geometry carries what the code reads of it: its     *)
(* geom_type, x and y for a Point, the centroid for the other types.       *)
(* A missing geometry (None) is the record NoGeometry.                     *)
(***************************************************************************)
NaN == "NaN"
NoGeometry == [geom_type |-> "None"]
Point(px, py) == [geom_type |-> "Point", x |-> px, y |-> py]
Shape(t, cx, cy) == [geom_type |-> t, centroid |-> [x |-> cx, y |-> cy]]

\* pd.DataFrame()
EmptyDataFrame == [columns |-> {}, rows |-> <<>>]

\* DataFrame.empty: some axis has length 0
IsEmpty(df) == df.columns = {} \/ Len(df.rows) = 0

SeqsUpTo(S, n) == UNION {[1..k -> S] : k \in 0..n}

Geometries ==
    {NoGeometry, Point(1, 2), Point(3, 4), Shape("Polygon", 5, 6),
     Shape("MultiPolygon", 7, 8), Shape("LineString", 9, 10)}

AmenityValues == {"cafe", "bank"}

Tables ==
    {[columns |-> {"geometry"}, rows |-> s] :
        s \in SeqsUpTo({[geometry |-> g] : g \in Geometries}, MaxRows)}
    \cup
    {[columns |-> {"geometry", "amenity"}, rows |-> s] :
        s \in SeqsUpTo({[geometry |-> g, amenity |-> a] :
                          g \in Geometries, a \in AmenityValues \cup {NaN}}, MaxRows)}
    \cup
    {[columns |-> {"geometry", "amenity", "name"}, rows |-> s] :
        s \in SeqsUpTo({[geometry |-> g, amenity |-> a, name |-> "Inn"] :
                          g \in Geometries, a \in AmenityValues \cup {NaN}}, MaxRows)}

\* The categories of the sidebar list that the model draws from.
AmenityTypes == {"all", "cafe"}

\* str.capitalize on the categories of the sidebar list
Capitalize(s) ==
    CASE s = "all"        -> "All"
      [] s = "restaurant" -> "Restaurant"
      [] s = "hospital"   -> "Hospital"
      [] s = "school"     -> "School"
      [] s = "bank"       -> "Bank"
      [] s = "cafe"       -> "Cafe"
      [] s = "pharmacy"   -> "Pharmacy"
      [] s = "cinema"     -> "Cinema"
      [] s = "parking"    -> "Parking"
      [] s = "fuel"       -> "Fuel"

(***************************************************************************)
(* add_markers_to_map                                                      *)
(***************************************************************************)
\* folium.Marker(location=coords, popup=tooltip, tooltip=tooltip)
Marker(coords, row, type) ==
    LET name    == IF "name" \in DOMAIN row THEN row.name ELSE "N/A"
        tooltip == <<Capitalize(type), ": ", name>>
    IN  [location |-> coords, popup |-> tooltip, tooltip |-> tooltip]

\* The loop over amenities.iterrows(): the markers added to the cluster.
RECURSIVE MarkerLoop(_, _)
MarkerLoop(rows, type) ==
    IF rows = <<>> THEN <<>>
    ELSE LET row  == Head(rows)
             g    == row.geometry
             rest == MarkerLoop(Tail(rows), type)
         IN  IF g = NoGeometry THEN rest
             ELSE IF g.geom_type = "Point"
                  THEN <<Marker(<<g.y, g.x>>, row, type)>> \o rest
             ELSE IF g.geom_type \in {"Polygon", "MultiPolygon"}
                  THEN <<Marker(<<g.centroid.y, g.centroid.x>>, row, type)>> \o rest
             ELSE rest

add_markers_to_map(map, df, type) ==
    [map EXCEPT !.children =
        Append(@, [kind |-> "MarkerCluster", children |-> MarkerLoop(df.rows, type)])]

(***************************************************************************)
(* add_heatmap_to_map                                                      *)
(***************************************************************************)
RECURSIVE HeatXY(_)
HeatXY(rows) ==
    IF rows = <<>> THEN <<>>
    ELSE LET g    == Head(rows).geometry
             rest == HeatXY(Tail(rows))
         IN  IF g = NoGeometry THEN rest
             ELSE IF g.geom_type = "Point" THEN << <<g.x, g.y>> >> \o rest
             ELSE IF g.geom_type \in {"Polygon", "MultiPolygon"}
                  THEN << <<g.centroid.x, g.centroid.y>> >> \o rest
             ELSE rest

\* The loop over amenities.iterrows(): heat_data.
RECURSIVE heat_data(_)
heat_data(rows) ==
    IF rows = <<>> THEN <<>>
    ELSE LET g    == Head(rows).geometry
             rest == heat_data(Tail(rows))
         IN  IF g = NoGeometry THEN rest
             ELSE IF g.geom_type = "Point" THEN << <<g.y, g.x>> >> \o rest
             ELSE IF g.geom_type \in {"Polygon", "MultiPolygon"}
                  THEN << <<g.centroid.y, g.centroid.x>> >> \o rest
             ELSE rest

add_heatmap_to_map(map, df) ==
    LET hd == heat_data(df.rows)
    IN  IF hd # <<>>
        THEN [map EXCEPT !.children = Append(@, [kind |-> "HeatMap", data |-> hd])]
        ELSE map

(***************************************************************************)
(* create_plotly_chart                                                     *)
(***************************************************************************)
\* Series.value_counts() of the amenity column, kept as the set of its
\* (Amenity, Count) rows; missing values are dropped.  The order of the
\* bars is not modelled.
RECURSIVE CountsKeepNaN(_)
CountsKeepNaN(rows) ==
    IF rows = <<>> THEN {}
    ELSE LET v    == Head(rows).amenity
             rest == CountsKeepNaN(Tail(rows))
         IN  IF \E c \in rest : c.Amenity = v
             THEN {IF c.Amenity = v THEN [c EXCEPT !.Count = @ + 1] ELSE c : c \in rest}
             ELSE rest \cup {[Amenity |-> v, Count |-> 1]}

RECURSIVE value_counts(_)
value_counts(rows) ==
    IF rows = <<>> THEN {}
    ELSE LET v    == Head(rows).amenity
             rest == value_counts(Tail(rows))
         IN  IF v = NaN THEN rest
             ELSE IF \E c \in rest : c.Amenity = v
             THEN {IF c.Amenity = v THEN [c EXCEPT !.Count = @ + 1] ELSE c : c \in rest}
             ELSE rest \cup {[Amenity |-> v, Count |-> 1]}

\* <<>> is None; <<figure>> is px.bar(counts, x='Amenity', y='Count', ...).
create_plotly_chart(df, type) ==
    LET counts == IF type = "all"
                  THEN IF "amenity" \in df.columns THEN value_counts(df.rows) ELSE {}
                  ELSE {[Amenity |-> type, Count |-> Len(df.rows)]}
    IN  IF counts # {}
        THEN <<[data |-> counts, x |-> "Amenity", y |-> "Count",
                title |-> "Amenity Distribution"]>>
        ELSE <<>>

(***************************************************************************)
(* The external feature service behind ox.geometries_from_point            *)
(***************************************************************************)
\* Coordinates are kept in units of 10^-5 degree.
example_coordinates ==
    [Hagenberg |-> <<4836964, 1451280>>, Lienz |-> <<4682940, 1276870>>]

TestAreas == DOMAIN example_coordinates

\* What the map database may hold around a point.
ServiceFeatures ==
    {[geometry |-> Point(1, 2), amenity |-> "cafe", name |-> "Inn"],
     [geometry |-> Shape("Polygon", 5, 6), amenity |-> "bank", name |-> "Inn"]}

\* A feature passes the tag filter {'amenity': True} when it carries any
\* amenity value, and {'amenity': v} when its amenity is v.
Matches(tags, f) ==
    IF tags.amenity.op = "any" THEN f.amenity # NaN ELSE f.amenity = tags.amenity.value

\* The outcomes of one query: the service raises, or returns the table of
\* the matching features it holds at that moment (possibly none).
Responses(request) ==
    {[raises |-> TRUE, df |-> EmptyDataFrame]}
    \cup
    {[raises |-> FALSE,
      df |-> IF s = <<>> THEN EmptyDataFrame
             ELSE [columns |-> {"geometry", "amenity", "name"}, rows |-> s]] :
        s \in SeqsUpTo({f \in ServiceFeatures : Matches(request.tags, f)}, MaxFetched)}

(***************************************************************************)
(* get_amenities                                                           *)
(***************************************************************************)
ErrorText == "Error fetching amenities"
WarningText == "No amenities found in the selected area."
NoChartText == "No chart data available."
UncaughtText == "uncaught exception"

TagsAlwaysType(type) == [amenity |-> [op |-> "equals", value |-> type]]

\* tags = {'amenity': True} if amenity_type == 'all' else {'amenity': amenity_type}
TagsFor(type) ==
    IF type = "all" THEN [amenity |-> [op |-> "any"]]
    ELSE [amenity |-> [op |-> "equals", value |-> type]]

\* The arguments of ox.geometries_from_point
Request(lat, lon, type, r) ==
    [point |-> <<lat, lon>>, tags |-> TagsFor(type), dist |-> r]

TryNoExcept(response) ==
    IF response.raises
    THEN [ret |-> <<>>, elements |-> <<>>, propagated |-> TRUE]
    ELSE [ret |-> <<response.df>>, elements |-> <<>>, propagated |-> FALSE]

\* The try/except around the query: what the call returns, the st elements
\* it shows, and whether an exception leaves the function.
TryQuery(response) ==
    IF response.raises
    THEN [ret |-> <<EmptyDataFrame>>, elements |-> <<ErrorText>>, propagated |-> FALSE]
    ELSE [ret |-> <<response.df>>, elements |-> <<>>, propagated |-> FALSE]

KeyWithoutType(lat, lon, type, r) == <<lat, lon, "all", r>>

\* st.cache_data keys an entry by the values of the call's arguments.
CacheKey(lat, lon, type, r) == <<lat, lon, type, r>>

\* get_amenities under @st.cache_data: a call whose arguments are in the
\* store returns the stored value and replays the stored elements without
\* running the body; any other call runs the body and, unless it raises,
\* stores what it returned and showed.
get_amenities(store, lat, lon, type, r, response) ==
    LET key == CacheKey(lat, lon, type, r)
    IN  IF key \in DOMAIN store
        THEN [ret |-> store[key].ret, elements |-> store[key].elements,
              propagated |-> FALSE, queries |-> <<>>, store |-> store]
        ELSE LET request == Request(lat, lon, type, r)
                 out     == TryQuery(response)
             IN  [ret |-> out.ret, elements |-> out.elements,
                  propagated |-> out.propagated,
                  queries |-> <<[request |-> request, raised |-> response.raises]>>,
                  store |-> IF out.propagated THEN store
                            ELSE [k \in DOMAIN store \cup {key} |->
                                    IF k = key
                                    THEN [ret |-> out.ret, elements |-> out.elements]
                                    ELSE store[k]]]

(***************************************************************************)
(* main                                                                    *)
(***************************************************************************)
Lat(area) == example_coordinates[area][1]
Lon(area) == example_coordinates[area][2]

\* folium.Map(location=[lat, lon], zoom_start=zoom_level, ...)
Map(lat, lon, zoom_level) ==
    [location |-> <<lat, lon>>, zoom_start |-> zoom_level, children |-> <<>>]

\* zoom_level = compute_zoom_level(RADIUS_DEFAULT)
main_zoom_level == compute_zoom_level(RADIUS_DEFAULT).ret

\* The part of main after the fetch, for a non-empty table.
Render(df, area, type, markers, heatmap) ==
    LET m0  == Map(Lat(area), Lon(area), main_zoom_level)
        m1  == IF markers THEN add_markers_to_map(m0, df, type) ELSE m0
        m2  == IF heatmap THEN add_heatmap_to_map(m1, df) ELSE m1
        fig == create_plotly_chart(df, type)
    IN  [messages |-> IF fig # <<>> THEN <<>> ELSE <<NoChartText>>,
         m |-> <<m2>>,
         chart |-> fig,
         called |-> <<"compute_zoom_level">>
                    \o (IF markers THEN <<"add_markers_to_map">> ELSE <<>>)
                    \o (IF heatmap THEN <<"add_heatmap_to_map">> ELSE <<>>)
                    \o <<"folium_static", "create_plotly_chart">>
                    \o (IF fig # <<>> THEN <<"st.plotly_chart">> ELSE <<>>)]

MainWarnAndGoOn(fetch, area, type, markers, heatmap) ==
    LET r == Render(fetch.ret[1], area, type, markers, heatmap)
    IN  [messages |-> fetch.elements
                      \o (IF IsEmpty(fetch.ret[1]) THEN <<WarningText>> ELSE <<>>)
                      \o r.messages,
         m |-> r.m, chart |-> r.chart, called |-> <<"get_amenities">> \o r.called]

\* The body of `if st.sidebar.button("Show Amenities")`, given the outcome
\* of the call of get_amenities.
MainBody(fetch, area, type, markers, heatmap) ==
    IF fetch.propagated
    THEN [messages |-> <<UncaughtText>>, m |-> <<>>, chart |-> <<>>,
          called |-> <<"get_amenities">>]
    ELSE IF IsEmpty(fetch.ret[1])
    THEN [messages |-> fetch.elements \o <<WarningText>>, m |-> <<>>, chart |-> <<>>,
          called |-> <<"get_amenities">>]
    ELSE LET r == Render(fetch.ret[1], area, type, markers, heatmap)
         IN  [messages |-> fetch.elements \o r.messages, m |-> r.m, chart |-> r.chart,
              called |-> <<"get_amenities">> \o r.called]

(***************************************************************************)
(* The application: one action per script run                              *)
(***************************************************************************)
Init ==
    /\ cache = <<>>
    /\ test_area = "Hagenberg"
    /\ amenity_type = "all"
    /\ show_markers = TRUE
    /\ show_heatmap = TRUE
    /\ clicked = FALSE
    /\ queries = <<>>
    /\ amenities = <<>>
    /\ messages = <<>>
    /\ m = <<>>
    /\ chart = <<>>
    /\ called = <<>>
    /\ radius = RADIUS_DEFAULT
    /\ zoom = <<>>

\* A run of main with the button not pressed: only the sidebar is drawn.
RunWithoutButton ==
    /\ clicked' = FALSE
    /\ queries' = <<>>
    /\ amenities' = <<>>
    /\ messages' = <<>>
    /\ m' = <<>>
    /\ chart' = <<>>
    /\ called' = <<>>
    /\ UNCHANGED <<cache, radius, zoom>>

SelectTestArea ==
    \E a \in TestAreas \ {test_area} :
        /\ test_area' = a
        /\ UNCHANGED <<amenity_type, show_markers, show_heatmap>>
        /\ RunWithoutButton

SelectAmenityType ==
    \E t \in AmenityTypes \ {amenity_type} :
        /\ amenity_type' = t
        /\ UNCHANGED <<test_area, show_markers, show_heatmap>>
        /\ RunWithoutButton

ToggleMarkers ==
    /\ show_markers' = ~show_markers
    /\ UNCHANGED <<test_area, amenity_type, show_heatmap>>
    /\ RunWithoutButton

ToggleHeatmap ==
    /\ show_heatmap' = ~show_heatmap
    /\ UNCHANGED <<test_area, amenity_type, show_markers>>
    /\ RunWithoutButton

\* A run of main with the button pressed, given the service's answer to the
\* query, should one be made.
RunWithButton(response) ==
    LET fetch == get_amenities(cache, Lat(test_area), Lon(test_area), amenity_type,
                               RADIUS_DEFAULT, response)
        out   == MainBody(fetch, test_area, amenity_type, show_markers, show_heatmap)
    IN  /\ clicked' = TRUE
        /\ cache' = fetch.store
        /\ queries' = fetch.queries
        /\ amenities' = fetch.ret
        /\ messages' = out.messages
        /\ m' = out.m
        /\ chart' = out.chart
        /\ called' = out.called
        /\ UNCHANGED <<test_area, amenity_type, show_markers, show_heatmap, radius, zoom>>

CurrentKey ==
    CacheKey(Lat(test_area), Lon(test_area), amenity_type, RADIUS_DEFAULT)

CurrentRequest ==
    Request(Lat(test_area), Lon(test_area), amenity_type, RADIUS_DEFAULT)

\* "Show Amenities" with the arguments in the store
ShowAmenitiesCached ==
    /\ CurrentKey \in DOMAIN cache
    /\ RunWithButton([raises |-> FALSE, df |-> EmptyDataFrame])

\* "Show Amenities" with the arguments not in the store: the query is made
ShowAmenitiesFetched ==
    /\ CurrentKey \notin DOMAIN cache
    /\ \E response \in Responses(CurrentRequest) : RunWithButton(response)

Next ==
    \/ SelectTestArea
    \/ SelectAmenityType
    \/ ToggleMarkers
    \/ ToggleHeatmap
    \/ ShowAmenitiesCached
    \/ ShowAmenitiesFetched

Spec == Init /\ [][Next]_vars

(***************************************************************************)
(* compute_zoom_level on its own                                           *)
(***************************************************************************)
InitZoom ==
    /\ radius \in Radii
    /\ zoom = <<>>
    /\ cache = <<>>
    /\ test_area = "Hagenberg"
    /\ amenity_type = "all"
    /\ show_markers = TRUE
    /\ show_heatmap = TRUE
    /\ clicked = FALSE
    /\ queries = <<>>
    /\ amenities = <<>>
    /\ messages = <<>>
    /\ m = <<>>
    /\ chart = <<>>
    /\ called = <<>>

ComputeZoom ==
    /\ zoom = <<>>
    /\ zoom' = <<compute_zoom_level(radius)>>
    /\ UNCHANGED <<radius, appVars>>

NextZoom == ComputeZoom

SpecZoom == InitZoom /\ [][NextZoom]_vars

(***************************************************************************)
(* The rendering and chart helpers on their own                            *)
(***************************************************************************)
InitHelpers ==
    /\ amenities \in {<<t>> : t \in Tables}
    /\ amenity_type \in AmenityTypes
    /\ m = <<Map(Lat("Hagenberg"), Lon("Hagenberg"), main_zoom_level)>>
    /\ chart = <<>>
    /\ called = <<>>
    /\ cache = <<>>
    /\ test_area = "Hagenberg"
    /\ show_markers = TRUE
    /\ show_heatmap = TRUE
    /\ clicked = FALSE
    /\ queries = <<>>
    /\ messages = <<>>
    /\ radius = RADIUS_DEFAULT
    /\ zoom = <<>>

Applied(f) == \E i \in DOMAIN called : called[i] = f

helperFrame == <<cache, test_area, amenity_type, show_markers, show_heatmap, clicked,
                 queries, amenities, messages, radius, zoom>>

AddMarkers ==
    /\ ~Applied("add_markers_to_map")
    /\ m' = <<add_markers_to_map(m[1], amenities[1], amenity_type)>>
    /\ called' = Append(called, "add_markers_to_map")
    /\ UNCHANGED <<chart, helperFrame>>

AddHeatmap ==
    /\ ~Applied("add_heatmap_to_map")
    /\ m' = <<add_heatmap_to_map(m[1], amenities[1])>>
    /\ called' = Append(called, "add_heatmap_to_map")
    /\ UNCHANGED <<chart, helperFrame>>

CreateChart ==
    /\ ~Applied("create_plotly_chart")
    /\ chart' = create_plotly_chart(amenities[1], amenity_type)
    /\ called' = Append(called, "create_plotly_chart")
    /\ UNCHANGED <<m, helperFrame>>

NextHelpers == AddMarkers \/ AddHeatmap \/ CreateChart

SpecHelpers == InitHelpers /\ [][NextHelpers]_vars

(***************************************************************************)
(* Properties                                                              *)
(***************************************************************************)
FetchedTable == amenities[1]

\* C1 as stated: every activation of "Show Amenities" issues exactly one
\* outbound feature query for the current (latitude, longitude, category,
\* radius); nothing comes from an earlier interaction.
C1_EveryActivationQueries ==
    clicked => /\ Len(queries) = 1
               /\ queries[1].request.point = <<Lat(test_area), Lon(test_area)>>

\* C1 amended: an activation issues exactly one outbound feature query for
\* the current inputs and stores its outcome, unless an earlier activation
\* already called with the same (latitude, longitude, category, radius);
\* then it issues no query and reuses the stored table and message.
C1_QueryUnlessStored ==
    [][clicked' =>
        LET key == <<Lat(test_area'), Lon(test_area'), amenity_type', RADIUS_DEFAULT>>
        IN  IF key \in DOMAIN cache
            THEN /\ queries' = <<>>
                 /\ amenities' = cache[key].ret
                 /\ cache' = cache
            ELSE /\ Len(queries') = 1
                 /\ queries'[1].request.point = <<Lat(test_area'), Lon(test_area')>>
                 /\ key \in DOMAIN cache'
                 /\ cache'[key].ret = amenities']_vars

\* C1 witness: an activation that reused a stored failure outcome.
C1_ReusedFailure ==
    /\ clicked
    /\ queries = <<>>
    /\ messages = <<ErrorText, WarningText>>

\* C2: when the feature query raises, get_amenities does not propagate the
\* exception: the error message is shown and the table returned has no rows.
C2_FailureBecomesEmpty ==
    \A i \in DOMAIN queries :
        queries[i].raised =>
            /\ amenities # <<>>
            /\ Len(FetchedTable.rows) = 0
            /\ messages # <<>>
            /\ messages[1] = ErrorText
            /\ \A j \in DOMAIN messages : messages[j] # UncaughtText

\* C2 witness: a run whose query raised.
C2_QueryRaised ==
    /\ clicked
    /\ queries # <<>>
    /\ queries[1].raised

\* C3: whenever the fetched table is empty, main shows the "No amenities
\* found" warning and creates no map, adds no layer and renders no chart.
C3_EmptyShowsNothing ==
    (clicked /\ amenities # <<>> /\ Len(FetchedTable.rows) = 0) =>
        /\ messages # <<>>
        /\ messages[Len(messages)] = WarningText
        /\ \A j \in DOMAIN messages : messages[j] # NoChartText
        /\ m = <<>>
        /\ chart = <<>>
        /\ called = <<"get_amenities">>

\* C3 witness: a query that succeeded and matched nothing.
C3_MatchedNothing ==
    /\ clicked
    /\ queries # <<>>
    /\ ~queries[1].raised
    /\ amenities # <<>>
    /\ Len(FetchedTable.rows) = 0

\* C4: compute_zoom_level returns exactly 15 for every radius below 500,
\* zero and negative radii included, without evaluating the logarithm.
C4_SmallRadius ==
    (zoom # <<>> /\ radius < 500) =>
        /\ zoom[1].ret = 15
        /\ zoom[1].log_calls = <<>>

\* C4 witness: the function applied to a negative radius.
C4_NegativeRadius == zoom # <<>> /\ radius < 0

\* C5: for every radius the value compute_zoom_level returns is an integer
\* in [10, 18]; so is the zoom_start main passes to the map.
C5_ZoomRange ==
    /\ zoom # <<>> => zoom[1].ret \in 10..18
    /\ main_zoom_level \in 10..18
    /\ m # <<>> => m[1].zoom_start \in 10..18

\* C5 witness: a radius large enough for the lower clamp to act.
C5_LowerClampActs == zoom # <<>> /\ radius >= 32000 /\ zoom[1].ret = 10

\* C6: a larger radius never yields a larger zoom: for radii
\* 500 <= r1 <= r2, compute_zoom_level(r1) >= compute_zoom_level(r2).
C6_Monotone ==
    zoom # <<>> =>
        \A r1 \in SampleRadii :
            (500 <= r1 /\ r1 <= radius) => compute_zoom_level(r1).ret >= zoom[1].ret

\* C6 witness: a radius whose zoom is strictly below that of radius 500.
C6_ZoomDropped == zoom # <<>> /\ radius = 4000 /\ zoom[1].ret < 15

\* C7: get_amenities forwards point, radius and category unchanged; the tag
\* filter matches every amenity for 'all' and only the features whose
\* amenity equals the category otherwise.
C7_RequestForwarded ==
    \A i \in DOMAIN queries :
        LET q == queries[i].request
        IN  /\ q.point = <<Lat(test_area), Lon(test_area)>>
            /\ q.dist = 1000
            /\ \A f \in ServiceFeatures \cup
                        {[geometry |-> NoGeometry, amenity |-> NaN, name |-> "Inn"]} :
                  Matches(q.tags, f) <=>
                      IF amenity_type = "all" THEN f.amenity \in AmenityValues
                      ELSE f.amenity = amenity_type

\* C7 witness: a query made for a specific category.
C7_SpecificCategoryQueried ==
    /\ clicked
    /\ queries # <<>>
    /\ amenity_type = "cafe"
    /\ test_area = "Lienz"

\* One [lat, lon] pair per feature whose geometry is a Point (its y, x) or a
\* Polygon/MultiPolygon (its centroid's y, x), in row order.
ExpectedCoords(rows) ==
    LET kept == SelectSeq(rows, LAMBDA row :
                    /\ row.geometry # NoGeometry
                    /\ row.geometry.geom_type \in {"Point", "Polygon", "MultiPolygon"})
    IN  [i \in 1..Len(kept) |->
            IF kept[i].geometry.geom_type = "Point"
            THEN <<kept[i].geometry.y, kept[i].geometry.x>>
            ELSE <<kept[i].geometry.centroid.y, kept[i].geometry.centroid.x>>]

LayersOf(kind) == SelectSeq(m[1].children, LAMBDA layer : layer.kind = kind)

\* C8: add_markers_to_map and add_heatmap_to_map forward the same sequence
\* of coordinates (ExpectedCoords of the table), and the heat layer is added
\* only when that sequence is non-empty.
C8_SameCoordinates ==
    LET exp      == ExpectedCoords(FetchedTable.rows)
        clusters == LayersOf("MarkerCluster")
        heats    == LayersOf("HeatMap")
    IN  /\ Applied("add_markers_to_map") =>
              /\ Len(clusters) = 1
              /\ [i \in 1..Len(clusters[1].children) |->
                      clusters[1].children[i].location] = exp
        /\ Applied("add_heatmap_to_map") =>
              IF exp = <<>> THEN heats = <<>>
              ELSE Len(heats) = 1 /\ heats[1].data = exp
        /\ ~Applied("add_heatmap_to_map") => heats = <<>>

\* C8 witness: both helpers applied to a polygon followed by a point.
C8_PolygonThenPoint ==
    /\ Applied("add_markers_to_map")
    /\ Applied("add_heatmap_to_map")
    /\ Len(FetchedTable.rows) = 2
    /\ FetchedTable.rows[1].geometry.geom_type = "Polygon"
    /\ FetchedTable.rows[2].geometry.geom_type = "Point"

\* The amenity values a table carries.
ValuesOf(df) ==
    IF "amenity" \in df.columns
    THEN {df.rows[i].amenity : i \in DOMAIN df.rows} \ {NaN}
    ELSE {}

\* C9: create_plotly_chart gives, for a specific category, one bar whose
\* count is the number of rows; for 'all', one bar per distinct amenity
\* value whose count is the number of rows carrying it; and None exactly
\* when the category is 'all' and the table carries no amenity value.
C9_ChartTallies ==
    Applied("create_plotly_chart") =>
        LET df   == FetchedTable
            vals == ValuesOf(df)
        IN  /\ chart = <<>> <=> (amenity_type = "all" /\ vals = {})
            /\ (chart # <<>> /\ amenity_type # "all") =>
                  chart[1].data =
                      {[Amenity |-> amenity_type, Count |-> Len(df.rows)]}
            /\ (chart # <<>> /\ amenity_type = "all") =>
                  chart[1].data =
                      {[Amenity |-> v,
                        Count |-> Cardinality({i \in DOMAIN df.rows :
                                                 df.rows[i].amenity = v})] : v \in vals}

\* C9 witness: a chart for 'all' with two bars.
C9_TwoBars ==
    /\ Applied("create_plotly_chart")
    /\ amenity_type = "all"
    /\ chart # <<>>
    /\ Cardinality(chart[1].data) = 2

\* C10: for every radius >= 500 the result is max(10, 15 - k), k the
\* largest integer with 500 * 2^k <= radius; it never exceeds 15, the clamp
\* at 18 never acts, and it is 10 from radius 16000 on.
C10_StepPerDoubling ==
    (zoom # <<>> /\ radius >= 500) =>
        LET k == CHOOSE j \in 0..40 : 500 * 2^j <= radius /\ radius < 500 * 2^(j + 1)
        IN  /\ zoom[1].ret = Max(10, 15 - k)
            /\ zoom[1].ret <= 15
            /\ 15 - k <= 18
            /\ radius >= 16000 => zoom[1].ret = 10

\* C10 witness: the last radius before the second doubling.
C10_BelowDoubling == zoom # <<>> /\ radius = 1999 /\ zoom[1].ret = 14

====
